---- MODULE Spec2Model ----
(***************************************************************************)
(* mobx-openapi-stores: LoadingStore / ApiStore / SingleStore /            *)
(* CollectionStore / CrudCollectionStore as one state machine.             *)
(*                                                                         *)
(* One store instance.  JavaScript objects are heap cells addressed by a   *)
(* reference, so that `current` and a collection slot may be the same      *)
(* object.  Every flow (apiCall, _fetch, _fetchAll, _create, _update,      *)
(* _delete) is a call record whose pc is the await it is suspended at; one *)
(* action is the code that runs between two awaits.                        *)
(*                                                                         *)
(* SpecApi: overlapping bare apiCall invocations on an ApiStore.           *)
(* Spec: one CRUD flow at a time, with every public mutator of the store   *)
(* free to run before it, after it and while it waits for its endpoint.    *)
(* SpecStore: the store's public mutators alone, with every entity value.  *)
(***************************************************************************)
EXTENDS Integers, Sequences, FiniteSets, TLC

\* ------------------------------------------------------------- bounds
MaxCalls == 2      \* bare apiCall invocations that may overlap
MaxLen == 2        \* longest collection the model lets addItem build
\* Heap cells: a collection, the list an endpoint answers with, `current`
\* and one result.
MaxObjs == 2 * MaxLen + 2

\* ------------------------------------------------------------- values
NoRef == 0                         \* null / undefined where an object is expected
Refs == 1..MaxObjs
Ids == {1, 2}
Names == {"A", "B"}
Absent == "absent"                 \* the property is not on the object
Free == [id |-> 0, name |-> "free"]
Entities == [id : Ids, name : Names \cup {Absent}]

NoApi == "null"
TheClient == "client"

\* The stub client: what `api[name]` is for each endpoint name a flow may pass.
EndpointNames == {"endpoint", "basePath", "noSuchEndpoint"}
ClientMember(client, name) ==
  IF name = "endpoint" THEN "function"
  ELSE IF name = "basePath" THEN "data"
  ELSE "absent"

VARIABLES isLoading, api, current, collection, heap, calls, _object
vars == <<isLoading, api, current, collection, heap, calls, _object>>

Slots == 1..MaxCalls

\* ------------------------------------------------------------- errors
\* What an endpoint may reject with.  shape: "response" (has a `response`
\* whose json() yields {message: body}), "error" (an Error), "object" (any
\* other object; msg is its JSON text), "string" (a non-empty string),
\* "undefined" (a falsy value).
NoErr == [shape |-> "none", body |-> "", msg |-> ""]
ErrVals ==
  { [shape |-> "response", body |-> "boom", msg |-> "Response returned an error code"],
    [shape |-> "error", body |-> "", msg |-> "fail"],
    [shape |-> "object", body |-> "", msg |-> "{code:1}"],
    [shape |-> "string", body |-> "", msg |-> "oops"],
    [shape |-> "undefined", body |-> "", msg |-> ""] }

DefaultMessage == "Unbekannter Fehler"
InOperatorTypeError == "Cannot use 'in' operator to search for 'response'"
NotAFunction == "api[apiCall] is not a function"
ApiNotSet == "Api is not set"

IsObject(err) == err.shape \in {"response", "error", "object"}
Falsy(err) == err.shape = "undefined"
\* JSON.stringify of a string, and of an error value: an object's msg is its
\* JSON text already.
JSONstringify(s) == "\"" \o s \o "\""
Stringified(err) == IF err.shape = "string" THEN JSONstringify(err.msg) ELSE err.msg

\* getErrorMessage: [threw, msg].  `'response' in error` throws a TypeError
\* when error is not an object, so the branches after it are reached by
\* objects only.
getErrorMessage(err, defaultMessage) ==
  IF ~IsObject(err) THEN [threw |-> TRUE, msg |-> InOperatorTypeError]
  ELSE IF err.shape = "response" THEN [threw |-> FALSE, msg |-> JSONstringify(err.body)]
  ELSE IF err.shape = "error" THEN [threw |-> FALSE, msg |-> err.msg]
  ELSE IF Falsy(err) THEN [threw |-> FALSE, msg |-> defaultMessage]
  ELSE [threw |-> FALSE, msg |-> Stringified(err)]

\* handleError: the error it throws, [type, message].
handleError(err) ==
  LET m == getErrorMessage(err, DefaultMessage)
  IN IF m.threw THEN [type |-> "TypeError", message |-> m.msg]
     ELSE [type |-> "Error", message |-> m.msg]

NoError == [type |-> "none", message |-> ""]

\* ------------------------------------------------------------- calls
IdleCall ==
  [pc |-> "idle", kind |-> "none", endpoint |-> "none", id |-> 0, useCache |-> FALSE,
   lookups |-> 0, invoked |-> 0,
   cached |-> NoRef, outcome |-> "none", item |-> NoRef, items |-> << >>, live |-> FALSE,
   error |-> NoError, rejected |-> NoErr, loadingAfterFinally |-> "none"]

NewCall(kind, endpoint, id, useCache) ==
  [IdleCall EXCEPT !.kind = kind, !.endpoint = endpoint, !.id = id, !.useCache = useCache]

\* The lowest idle slot takes the next flow.
IdleSlots == {k \in Slots : calls[k].pc = "idle"}
NextSlot == CHOOSE k \in IdleSlots : \A j \in IdleSlots : k <= j

\* ------------------------------------------------------------- heap
Range(s) == {s[i] : i \in 1..Len(s)}
FreeRefs(h) == {r \in Refs : h[r] = Free}
Lowest(S) == CHOOSE r \in S : \A q \in S : r <= q

\* The objects a call record holds: the cache-lookup result, the endpoint's
\* result, the elements of the endpoint's list.
CallRefs(c) == <<c.cached, c.item>> \o c.items

RECURSIVE Flatten(_, _)
Flatten(cs, k) == IF k > Len(cs) THEN << >> ELSE CallRefs(cs[k]) \o Flatten(cs, k + 1)

\* The referenced objects in order of first reference: collection, current,
\* call records.
RECURSIVE FirstUse(_, _)
FirstUse(s, seen) ==
  IF s = << >> THEN << >>
  ELSE IF Head(s) = NoRef \/ Head(s) \in seen THEN FirstUse(Tail(s), seen)
  ELSE <<Head(s)>> \o FirstUse(Tail(s), seen \cup {Head(s)})

Reachable(cur, coll, cs) == FirstUse(coll \o <<cur>> \o Flatten(cs, 1), {})

\* A result the endpoint builds: one fresh object per entity value, at the
\* lowest free references.  [h, refs]
RECURSIVE AllocAll(_, _)
AllocAll(h, vals) ==
  IF vals = << >> THEN [h |-> h, refs |-> << >>]
  ELSE LET r == Lowest(FreeRefs(h))
           rest == AllocAll([h EXCEPT ![r] = Head(vals)], Tail(vals))
       IN [h |-> rest.h, refs |-> <<r>> \o rest.refs]

\* ------------------------------------------------------------- SingleStore / CollectionStore
\* A store state st is [h, cur, coll]: the heap, `_current`, `_collection`.
Store == [h |-> heap, cur |-> current, coll |-> collection]

IdOf(h, r) == IF r = NoRef THEN 0 ELSE h[r].id     \* this.current?.id

setCurrent(st, newCurrent) == [st EXCEPT !.cur = newCurrent]

setCollection(st, newCollection) == [st EXCEPT !.coll = newCollection]

\* addItem that never selects the new item.
addItemIgnoringFlag(st, newItem, setCur) == [st EXCEPT !.coll = Append(@, newItem)]

\* addItem that puts the new item in the place of an element with its id
\* when there is one.
addItemUnique(st, newItem, setCur) ==
  LET st1 == IF setCur THEN setCurrent(st, newItem) ELSE st
      hits == {i \in 1..Len(st.coll) : st.h[st.coll[i]].id = st.h[newItem].id}
  IN IF hits = {} THEN [st1 EXCEPT !.coll = Append(@, newItem)]
     ELSE [st1 EXCEPT !.coll = [i \in 1..Len(st.coll) |->
                                  IF i \in hits THEN newItem ELSE st.coll[i]]]

addItem(st, newItem, setCur) ==
  LET st1 == IF setCur THEN setCurrent(st, newItem) ELSE st
  IN [st1 EXCEPT !.coll = Append(@, newItem)]

\* setItem replacing the first element with the item's id only.
setItemFirstMatch(st, item, setCur) ==
  LET st1 == IF setCur \/ IdOf(st.h, st.cur) = st.h[item].id
             THEN setCurrent(st, item) ELSE st
      hits == {i \in 1..Len(st1.coll) : st1.h[st1.coll[i]].id = st1.h[item].id}
  IN setCollection(st1,
       [i \in 1..Len(st1.coll) |->
          IF i \in hits /\ \A j \in hits : i <= j THEN item ELSE st1.coll[i]])

\* setItem that selects the item only when setCurrent is passed as true.
setItemOnFlagOnly(st, item, setCur) ==
  LET st1 == IF setCur THEN setCurrent(st, item) ELSE st
  IN setCollection(st1,
       [i \in 1..Len(st1.coll) |->
          IF st1.h[st1.coll[i]].id = st1.h[item].id THEN item ELSE st1.coll[i]])

setItem(st, item, setCur) ==
  LET st1 == IF setCur \/ IdOf(st.h, st.cur) = st.h[item].id
             THEN setCurrent(st, item) ELSE st
  IN setCollection(st1,
       [i \in 1..Len(st1.coll) |->
          IF st1.h[st1.coll[i]].id = st1.h[item].id THEN item ELSE st1.coll[i]])

\* An assign that leaves the object with the source's properties only.
assignReplacing(object, source) == source

\* lodash assign(object, source): every own property of source is copied.
assign(object, source) ==
  [id |-> source.id,
   name |-> IF source.name = Absent THEN object.name ELSE source.name]

\* updatedItem is the value of the object passed in.  assign(null, ...) is a
\* no-op on the store.
editItem(st, updatedItem, setCur) ==
  LET h1 == IF (setCur \/ IdOf(st.h, st.cur) = updatedItem.id) /\ st.cur # NoRef
            THEN [st.h EXCEPT ![st.cur] = assign(@, updatedItem)]
            ELSE st.h
      h2 == [r \in Refs |->
               IF r \in Range(st.coll) /\ h1[r].id = updatedItem.id
               THEN assign(h1[r], updatedItem) ELSE h1[r]]
  IN setCollection([st EXCEPT !.h = h2], st.coll)

\* removeItem that leaves current alone.
removeItemKeepsCurrent(st, id) ==
  [st EXCEPT !.coll = SelectSeq(@, LAMBDA r : st.h[r].id # id)]

\* lodash remove(array, predicate) removes every element the predicate holds of.
removeItem(st, id) ==
  LET st1 == IF IdOf(st.h, st.cur) = id THEN setCurrent(st, NoRef) ELSE st
  IN [st1 EXCEPT !.coll = SelectSeq(@, LAMBDA r : st.h[r].id # id)]

Matching(st, id) == {i \in 1..Len(st.coll) : st.h[st.coll[i]].id = id}
\* getById that searches the collection before it looks at current.
getByIdCollectionFirst(st, id) ==
  IF Matching(st, id) # {} THEN st.coll[Lowest(Matching(st, id))]
  ELSE IF IdOf(st.h, st.cur) = id THEN st.cur
  ELSE NoRef

getById(st, id) ==
  IF IdOf(st.h, st.cur) = id THEN st.cur
  ELSE IF Matching(st, id) = {} THEN NoRef
  ELSE st.coll[Lowest(Matching(st, id))]

\* ------------------------------------------------------------- ApiStore
Bool(b) == IF b THEN "true" ELSE "false"

\* callApi calling the member optionally, `api[apiCall]?.(args)`: a member
\* that is no function yields undefined.
callApiOptionalCall(c, client) ==
  IF client = NoApi
  THEN [c EXCEPT !.pc = "settled", !.outcome = "error",
                 !.error = handleError([shape |-> "error", body |-> "", msg |-> "No Api provided"])]
  ELSE IF ClientMember(client, c.endpoint) = "function"
  THEN [c EXCEPT !.pc = "inflight", !.lookups = @ + 1, !.invoked = @ + 1]
  ELSE [c EXCEPT !.pc = "settled", !.lookups = @ + 1, !.outcome = "nothing"]

\* callApi up to its first await: the guard, the member lookup and the
\* invocation are synchronous; a TypeError of the lookup goes to
\* handleError.
callApi(c, client) ==
  IF client = NoApi
  THEN [c EXCEPT !.pc = "settled", !.outcome = "error",
                 !.error = handleError([shape |-> "error", body |-> "", msg |-> "No Api provided"])]
  ELSE IF ClientMember(client, c.endpoint) = "function"
  THEN [c EXCEPT !.pc = "inflight", !.lookups = @ + 1, !.invoked = @ + 1]
  ELSE [c EXCEPT !.pc = "settled", !.lookups = @ + 1, !.outcome = "error",
                 !.error = handleError([shape |-> "error", body |-> "", msg |-> NotAFunction])]

\* apiCall without its own `if (!this.api) throw`.
apiCallUnguarded(c) == [call |-> callApi(c, api), loading |-> TRUE]

\* apiCall without `this.setIsLoading(true)`.
apiCallFlagUntouched(c) ==
  IF api = NoApi
  THEN [call |-> [c EXCEPT !.pc = "finalized", !.outcome = "error",
                           !.error = [type |-> "Error", message |-> ApiNotSet],
                           !.loadingAfterFinally = Bool(FALSE)],
        loading |-> FALSE]
  ELSE [call |-> callApi(c, api), loading |-> isLoading]

\* apiCall that sets the flag and tests api before it enters its try block.
apiCallThrowsOutsideTry(c) ==
  IF api = NoApi
  THEN [call |-> [c EXCEPT !.pc = "finalized", !.outcome = "error",
                           !.error = [type |-> "Error", message |-> ApiNotSet],
                           !.loadingAfterFinally = Bool(TRUE)],
        loading |-> TRUE]
  ELSE [call |-> callApi(c, api), loading |-> TRUE]

\* ApiStore.apiCall up to its first await: [call, loading].  With no api the
\* throw runs the finally block at once.
apiCall(c) ==
  IF api = NoApi
  THEN [call |-> [c EXCEPT !.pc = "finalized", !.outcome = "error",
                           !.error = [type |-> "Error", message |-> ApiNotSet],
                           !.loadingAfterFinally = Bool(FALSE)],
        loading |-> FALSE]
  ELSE [call |-> callApi(c, api), loading |-> TRUE]

\* A LoadingStore has no `api`.
NoApiField == "absent"

\* The constructor of a bare LoadingStore: the field initialiser alone.
InitLoadingStore ==
  /\ isLoading = FALSE
  /\ api = NoApiField
  /\ current = NoRef
  /\ collection = << >>
  /\ heap = [r \in Refs |-> Free]
  /\ calls = [k \in Slots |-> IdleCall]
  /\ _object = << >>

\* An ApiStore constructor that leaves the flag as LoadingStore made it.
InitWithoutSetIsLoading ==
  /\ isLoading = FALSE
  /\ api = NoApi
  /\ current = NoRef
  /\ collection = << >>
  /\ heap = [r \in Refs |-> Free]
  /\ calls = [k \in Slots |-> IdleCall]
  /\ _object = << >>

\* The constructor: LoadingStore's field initialiser, then ApiStore's
\* setIsLoading(true).
Init ==
  /\ isLoading = TRUE
  /\ api = NoApi
  /\ current = NoRef
  /\ collection = << >>
  /\ heap = [r \in Refs |-> Free]
  /\ calls = [k \in Slots |-> IdleCall]
  /\ _object = << >>

\* The state after a step that leaves the store st and the call records cs.
\* Objects nothing refers to are collected, and the others are numbered in
\* order of first reference.
Commit(st, cs) ==
  \E order \in {Reachable(st.cur, st.coll, cs)} :
  \E pos \in {[r \in 0..MaxObjs |->
                 IF r \in Range(order) THEN CHOOSE i \in 1..Len(order) : order[i] = r
                 ELSE NoRef]} :
     /\ heap' = [i \in Refs |-> IF i <= Len(order) THEN st.h[order[i]] ELSE Free]
     /\ current' = pos[st.cur]
     /\ collection' = [i \in 1..Len(st.coll) |-> pos[st.coll[i]]]
     /\ calls' = [k \in Slots |->
                    [cs[k] EXCEPT !.cached = pos[@], !.item = pos[@],
                                  !.items = [i \in 1..Len(@) |-> pos[@[i]]]]]

\* `this._collection` is assigned a new array: the array a flow took from
\* the store is no longer the store's.  (What the old array holds is not
\* kept: nothing reads it again.)
Detach(cs) == [k \in Slots |-> [cs[k] EXCEPT !.live = FALSE]]

SetApi ==
  /\ api' = TheClient
  /\ UNCHANGED <<_object, isLoading, current, collection, heap, calls>>

\* The application sets the flag by hand between calls.
SetIsLoading(b) ==
  /\ \A k \in Slots : calls[k].pc = "idle"
  /\ isLoading' = b
  /\ UNCHANGED <<_object, api, current, collection, heap, calls>>

\* A flow enters apiCall: the call record and the flag after its
\* synchronous part.
EnterApiCall(k, c) ==
  LET r == apiCall(c)
  IN /\ calls' = [calls EXCEPT ![k] = r.call]
     /\ isLoading' = r.loading
     /\ UNCHANGED <<_object, api, current, collection, heap>>

\* store.apiCall(endpoint, args)
StartApiCall(endpoint) ==
  /\ IdleSlots # {}
  /\ EnterApiCall(NextSlot, NewCall("apiCall", endpoint, 0, FALSE))

\* The endpoint's promise resolves with nothing (undefined).
EndpointResolveNothing(k) ==
  /\ calls[k].pc = "inflight"
  /\ calls' = [calls EXCEPT ![k].pc = "settled", ![k].outcome = "nothing"]
  /\ UNCHANGED <<_object, isLoading, api, current, collection, heap>>

\* The endpoint's promise resolves with an entity, a new object.  Only
\* _update's endpoint is taken to answer with part of an entity, and
\* _create's endpoint answers while the collection has room for the item.
EndpointResolveItem(k, e) ==
  /\ calls[k].pc = "inflight"
  /\ calls[k].kind # "_fetchAll"
  /\ e.name = Absent => calls[k].kind = "_update"
  /\ calls[k].kind = "_create" => Len(collection) < MaxLen
  /\ FreeRefs(heap) # {}
  /\ \E a \in {AllocAll(heap, <<e>>)} :
       Commit([Store EXCEPT !.h = a.h],
              [calls EXCEPT ![k].pc = "settled", ![k].outcome = "value",
                            ![k].item = a.refs[1]])
  /\ UNCHANGED <<_object, isLoading, api>>

\* The endpoint's promise resolves with a list of entities, a new array of
\* new objects.
EndpointResolveList(k, es) ==
  /\ calls[k].pc = "inflight"
  /\ calls[k].kind = "_fetchAll"
  /\ Cardinality(FreeRefs(heap)) >= Len(es)
  /\ \E a \in {AllocAll(heap, es)} :
       Commit([Store EXCEPT !.h = a.h],
              [calls EXCEPT ![k].pc = "settled", ![k].outcome = "value",
                            ![k].items = a.refs])
  /\ UNCHANGED <<_object, isLoading, api>>

\* The endpoint throws or its promise rejects with err: callApi's catch
\* awaits handleError(err), which throws.
EndpointReject(k, err) ==
  /\ calls[k].pc = "inflight"
  /\ calls' = [calls EXCEPT ![k].pc = "settled", ![k].outcome = "error",
                            ![k].rejected = err, ![k].error = handleError(err)]
  /\ UNCHANGED <<_object, isLoading, api, current, collection, heap>>

\* apiCall resetting the flag after `return await callApi(...)` instead of in
\* a finally block: a throw skips the reset.
ApiCallFinallyOnSuccessOnly(k) ==
  /\ calls[k].pc = "settled"
  /\ isLoading' = IF calls[k].outcome = "error" THEN isLoading ELSE FALSE
  /\ calls' = [calls EXCEPT ![k].pc = "finalized",
                            ![k].loadingAfterFinally = Bool(isLoading')]
  /\ UNCHANGED <<_object, api, current, collection, heap>>

\* apiCall counting the calls in flight: the flag falls with the last one.
ApiCallFinallyCounting(k) ==
  /\ calls[k].pc = "settled"
  /\ isLoading' = (\E j \in Slots \ {k} : calls[j].pc \in {"inflight", "settled"})
  /\ calls' = [calls EXCEPT ![k].pc = "finalized",
                            ![k].loadingAfterFinally = Bool(isLoading')]
  /\ UNCHANGED <<_object, api, current, collection, heap>>

\* apiCall's finally block, after callApi has returned or thrown.
ApiCallFinally(k) ==
  /\ calls[k].pc = "settled"
  /\ isLoading' = FALSE
  /\ calls' = [calls EXCEPT ![k].pc = "finalized",
                            ![k].loadingAfterFinally = Bool(isLoading')]
  /\ UNCHANGED <<_object, api, current, collection, heap>>

\* A flow is over: st is the store it leaves, c its record.
Return(k, st, cs, c) ==
  /\ \E s \in {st} : Commit(s, [cs EXCEPT ![k] = [c EXCEPT !.pc = "returned"]])
  /\ UNCHANGED <<_object, isLoading, api>>

\* The promise of a bare apiCall settles: the caller sees result or error.
ApiCallReturn(k) ==
  /\ calls[k].pc = "finalized"
  /\ calls[k].kind = "apiCall"
  /\ Return(k, Store, calls, calls[k])

\* The caller has taken the result; the record is dropped.
Forget(k) ==
  /\ calls[k].pc = "returned"
  /\ Commit(Store, [calls EXCEPT ![k] = IdleCall])
  /\ UNCHANGED <<_object, isLoading, api>>

\* ------------------------------------------------------------- CrudCollectionStore
NoFlow == \A k \in Slots : calls[k].pc = "idle"

MissingItem(what) ==
  [type |-> "Error", message |-> what \o " Endpoint did not return an item"]

\* _fetch that goes to the endpoint whatever useCache is.
StartFetchNoCache(endpoint, id, useCache) ==
  /\ NoFlow
  /\ EnterApiCall(NextSlot, NewCall("_fetch", endpoint, id, useCache))

\* _fetch(endpoint, {id}, {useCache}) up to its first await.
StartFetch(endpoint, id, useCache) ==
  /\ NoFlow
  /\ LET c == NewCall("_fetch", endpoint, id, useCache)
         found == getById(Store, id)
     IN IF useCache
        THEN /\ calls' = [calls EXCEPT ![NextSlot] =
                            [c EXCEPT !.pc = "cacheWait", !.cached = found, !.item = found]]
             /\ UNCHANGED <<_object, isLoading, api, current, collection, heap>>
        ELSE EnterApiCall(NextSlot, c)

\* _fetch after the cache lookup's await.
FetchCacheResume(k) ==
  /\ calls[k].pc = "cacheWait"
  /\ calls[k].kind = "_fetch"
  /\ IF calls[k].item # NoRef
     THEN Return(k, Store, calls, [calls[k] EXCEPT !.outcome = "value"])
     ELSE EnterApiCall(k, calls[k])

\* _fetch that drops the item from the store when the endpoint has none.
FetchContinueDropsMissing(k) ==
  /\ calls[k].pc = "finalized"
  /\ calls[k].kind = "_fetch"
  /\ IF calls[k].outcome = "value"
     THEN Return(k, setItem(Store, calls[k].item, TRUE), Detach(calls), calls[k])
     ELSE IF calls[k].outcome = "nothing"
     THEN Return(k, removeItem(Store, calls[k].id), calls, calls[k])
     ELSE Return(k, Store, calls, calls[k])

\* _fetch after `await this.apiCall(...)`.
FetchContinue(k) ==
  /\ calls[k].pc = "finalized"
  /\ calls[k].kind = "_fetch"
  /\ IF calls[k].outcome = "value"
     THEN Return(k, setItem(Store, calls[k].item, TRUE), Detach(calls), calls[k])
     ELSE Return(k, Store, calls, calls[k])

\* _fetchAll that goes to the endpoint whatever useCache is.
StartFetchAllNoCache(endpoint, useCache) ==
  /\ NoFlow
  /\ EnterApiCall(NextSlot, NewCall("_fetchAll", endpoint, 0, useCache))

\* _fetchAll(endpoint, args, {useCache}) up to its first await.
StartFetchAll(endpoint, useCache) ==
  /\ NoFlow
  /\ LET c == NewCall("_fetchAll", endpoint, 0, useCache)
     IN IF useCache /\ Len(collection) > 0
        THEN /\ calls' = [calls EXCEPT ![NextSlot] = [c EXCEPT !.pc = "cacheWait", !.live = TRUE]]
             /\ UNCHANGED <<_object, isLoading, api, current, collection, heap>>
        ELSE EnterApiCall(NextSlot, c)

\* The two earlier copies of _fetchAll, called with useCache: `items` is
\* awaited from this.collection whatever its length, and an array is truthy,
\* so the flow goes on as a cache hit.
StartFetchAllEarlier(endpoint) ==
  /\ NoFlow
  /\ calls' = [calls EXCEPT ![NextSlot] =
                 [NewCall("_fetchAll", endpoint, 0, TRUE) EXCEPT !.pc = "cacheWait", !.live = TRUE]]
  /\ UNCHANGED <<_object, isLoading, api, current, collection, heap>>

\* _fetchAll after the cache lookup's await: items is an array, so truthy.
FetchAllCacheResume(k) ==
  /\ calls[k].pc = "cacheWait"
  /\ calls[k].kind = "_fetchAll"
  /\ Return(k, Store, calls, [calls[k] EXCEPT !.outcome = "value"])

\* _fetchAll that keeps the collection when the endpoint has no list.
FetchAllContinueKeepsCollection(k) ==
  /\ calls[k].pc = "finalized"
  /\ calls[k].kind = "_fetchAll"
  /\ IF calls[k].outcome = "value"
     THEN Return(k, setCollection(Store, calls[k].items), Detach(calls),
                 [calls[k] EXCEPT !.items = << >>, !.live = TRUE])
     ELSE Return(k, Store, calls, calls[k])

\* _fetchAll that catches the error of apiCall and empties the collection.
FetchAllContinueClearsOnError(k) ==
  /\ calls[k].pc = "finalized"
  /\ calls[k].kind = "_fetchAll"
  /\ IF calls[k].outcome = "value"
     THEN Return(k, setCollection(Store, calls[k].items), Detach(calls),
                 [calls[k] EXCEPT !.items = << >>, !.live = TRUE])
     ELSE Return(k, setCollection(Store, << >>), Detach(calls), calls[k])

\* _fetchAll after `await this.apiCall(...)`.
FetchAllContinue(k) ==
  /\ calls[k].pc = "finalized"
  /\ calls[k].kind = "_fetchAll"
  /\ IF calls[k].outcome = "value"
     THEN Return(k, setCollection(Store, calls[k].items), Detach(calls),
                 [calls[k] EXCEPT !.items = << >>, !.live = TRUE])
     ELSE IF calls[k].outcome = "nothing"
     THEN Return(k, setCollection(Store, << >>), Detach(calls), calls[k])
     ELSE Return(k, Store, calls, calls[k])

\* _create(endpoint, args)
StartCreate(endpoint) ==
  /\ NoFlow
  /\ EnterApiCall(NextSlot, NewCall("_create", endpoint, 0, FALSE))

\* _create that returns undefined when the endpoint has no item.
CreateContinueSilent(k) ==
  /\ calls[k].pc = "finalized"
  /\ calls[k].kind = "_create"
  /\ IF calls[k].outcome = "value"
     THEN Return(k, addItem(Store, calls[k].item, TRUE), calls, calls[k])
     ELSE Return(k, Store, calls, calls[k])

\* _create that hands the item to setItem, not addItem.
CreateContinueSetsItem(k) ==
  /\ calls[k].pc = "finalized"
  /\ calls[k].kind = "_create"
  /\ IF calls[k].outcome = "value"
     THEN Return(k, setItem(Store, calls[k].item, TRUE), Detach(calls), calls[k])
     ELSE IF calls[k].outcome = "nothing"
     THEN Return(k, Store, calls,
                 [calls[k] EXCEPT !.outcome = "error", !.error = MissingItem("Create")])
     ELSE Return(k, Store, calls, calls[k])

CreateContinue(k) ==
  /\ calls[k].pc = "finalized"
  /\ calls[k].kind = "_create"
  /\ IF calls[k].outcome = "value"
     THEN Return(k, addItem(Store, calls[k].item, TRUE), calls, calls[k])
     ELSE IF calls[k].outcome = "nothing"
     THEN Return(k, Store, calls,
                 [calls[k] EXCEPT !.outcome = "error", !.error = MissingItem("Create")])
     ELSE Return(k, Store, calls, calls[k])

\* _update(endpoint, args)
StartUpdate(endpoint) ==
  /\ NoFlow
  /\ EnterApiCall(NextSlot, NewCall("_update", endpoint, 0, FALSE))

\* _update that puts the returned item in place with setItem.
UpdateContinueReplaces(k) ==
  /\ calls[k].pc = "finalized"
  /\ calls[k].kind = "_update"
  /\ IF calls[k].outcome = "value"
     THEN Return(k, setItem(Store, calls[k].item, TRUE), Detach(calls), calls[k])
     ELSE IF calls[k].outcome = "nothing"
     THEN Return(k, Store, calls,
                 [calls[k] EXCEPT !.outcome = "error", !.error = MissingItem("Update")])
     ELSE Return(k, Store, calls, calls[k])

UpdateContinue(k) ==
  /\ calls[k].pc = "finalized"
  /\ calls[k].kind = "_update"
  /\ IF calls[k].outcome = "value"
     THEN Return(k, editItem(Store, heap[calls[k].item], TRUE), Detach(calls),
                 calls[k])
     ELSE IF calls[k].outcome = "nothing"
     THEN Return(k, Store, calls,
                 [calls[k] EXCEPT !.outcome = "error", !.error = MissingItem("Update")])
     ELSE Return(k, Store, calls, calls[k])

\* _delete that removes the item before it calls the endpoint.
StartDeleteOptimistic(endpoint, id) ==
  /\ NoFlow
  /\ \E r \in {apiCall(NewCall("_delete", endpoint, id, FALSE))} :
       /\ Commit(removeItem(Store, id), [calls EXCEPT ![NextSlot] = r.call])
       /\ isLoading' = r.loading
  /\ UNCHANGED <<_object, api>>

\* _delete(endpoint, {id})
StartDelete(endpoint, id) ==
  /\ NoFlow
  /\ EnterApiCall(NextSlot, NewCall("_delete", endpoint, id, FALSE))

DeleteContinue(k) ==
  /\ calls[k].pc = "finalized"
  /\ calls[k].kind = "_delete"
  /\ IF calls[k].outcome = "error"
     THEN Return(k, Store, calls, calls[k])
     ELSE Return(k, removeItem(Store, calls[k].id), calls,
                 [calls[k] EXCEPT !.outcome = "nothing", !.item = NoRef])

\* _fetch called after the flows before it are over, their results still
\* in the hands of their callers.
StartFetchAfter(endpoint, id, useCache) ==
  /\ \A k \in Slots : calls[k].pc \in {"idle", "returned"}
  /\ IdleSlots # {}
  /\ LET c == NewCall("_fetch", endpoint, id, useCache)
         found == getById(Store, id)
     IN IF useCache
        THEN /\ calls' = [calls EXCEPT ![NextSlot] =
                            [c EXCEPT !.pc = "cacheWait", !.cached = found, !.item = found]]
             /\ UNCHANGED <<_object, isLoading, api, current, collection, heap>>
        ELSE EnterApiCall(NextSlot, c)

\* _create, _update and _delete called while other flows of the store wait
\* for their endpoints: nothing in the store keeps a caller from it.
StartCreateOverlapping(endpoint) ==
  /\ IdleSlots # {}
  /\ EnterApiCall(NextSlot, NewCall("_create", endpoint, 0, FALSE))

StartUpdateOverlapping(endpoint) ==
  /\ IdleSlots # {}
  /\ EnterApiCall(NextSlot, NewCall("_update", endpoint, 0, FALSE))

StartDeleteOverlapping(endpoint, id) ==
  /\ IdleSlots # {}
  /\ EnterApiCall(NextSlot, NewCall("_delete", endpoint, id, FALSE))

\* ------------------------------------------------------------- the store's public mutators
\* Called by the application with objects of its own, in a task of its own:
\* while no flow runs, or while a flow waits for its endpoint.  (The other
\* awaits of a flow are over within the task that reaches them.)
Fresh(e) == AllocAll(heap, <<e>>)
AtTaskBoundary == \A k \in Slots : calls[k].pc \in {"idle", "inflight"}

SetCurrentNull ==
  /\ AtTaskBoundary
  /\ Commit(setCurrent(Store, NoRef), calls)
  /\ UNCHANGED <<_object, isLoading, api>>

\* setCurrent(collection[i]): an element is selected.
SetCurrentElement(i) ==
  /\ AtTaskBoundary
  /\ i \in 1..Len(collection)
  /\ Commit(setCurrent(Store, collection[i]), calls)
  /\ UNCHANGED <<_object, isLoading, api>>

SetCollection(es) ==
  /\ AtTaskBoundary
  /\ Cardinality(FreeRefs(heap)) >= Len(es)
  /\ \E a \in {AllocAll(heap, es)} :
       Commit(setCollection([Store EXCEPT !.h = a.h], a.refs), Detach(calls))
  /\ UNCHANGED <<_object, isLoading, api>>

AddItem(e, setCur) ==
  /\ AtTaskBoundary
  /\ Len(collection) < MaxLen
  /\ FreeRefs(heap) # {}
  /\ \E a \in {Fresh(e)} : Commit(addItem([Store EXCEPT !.h = a.h], a.refs[1], setCur), calls)
  /\ UNCHANGED <<_object, isLoading, api>>

SetItem(e, setCur) ==
  /\ AtTaskBoundary
  /\ FreeRefs(heap) # {}
  /\ \E a \in {Fresh(e)} : Commit(setItem([Store EXCEPT !.h = a.h], a.refs[1], setCur),
                                 Detach(calls))
  /\ UNCHANGED <<_object, isLoading, api>>

EditItem(e, setCur) ==
  /\ AtTaskBoundary
  /\ Commit(editItem(Store, e, setCur), Detach(calls))
  /\ UNCHANGED <<_object, isLoading, api>>

RemoveItem(id) ==
  /\ AtTaskBoundary
  /\ Commit(removeItem(Store, id), calls)
  /\ UNCHANGED <<_object, isLoading, api>>

\* ------------------------------------------------------------- ObjectStore
\* `_object` is an observable object: the model keeps it as the sequence of
\* its entries [key, value] in the order mobx `entries` / `values` list them
\* (Object.keys: integer-like names first, then the others in the order in
\* which they were set).  A value is an array of items or one item; mobx
\* stores observable copies, so values are compared by content.
Targets == {[id |-> 1, name |-> "A"], [id |-> 1, name |-> "B"], [id |-> 2, name |-> "A"]}

\* Values of TKey: the number 0, the strings 'a' and ''.
KeyArgs ==
  {[type |-> "number", s |-> "0"], [type |-> "string", s |-> "a"], [type |-> "string", s |-> ""]}

undefined == [type |-> "undefined", s |-> "undefined"]
NotFound == [id |-> 0, name |-> "undefined"]

String(id) == id.s
StringKey(key) == [type |-> "string", s |-> key]

\* `!entryId`
IsFalsy(entryId) ==
  \/ entryId = undefined
  \/ entryId.type = "number" /\ entryId.s = "0"
  \/ entryId.type = "string" /\ entryId.s = ""

IsArrayIndex(key) == key \in {"0"}

Array(items) == [isArray |-> TRUE, items |-> items]
Single(item) == [isArray |-> FALSE, items |-> <<item>>]
NoEntry == [isArray |-> FALSE, items |-> << >>]

has(obj, key) == \E i \in 1..Len(obj) : obj[i].key = key

get(obj, key) ==
  IF has(obj, key) THEN obj[CHOOSE i \in 1..Len(obj) : obj[i].key = key].value
  ELSE NoEntry

\* A name that is already there keeps its place; a new integer-like name goes
\* with the integer-like ones (the model has one), another new name goes last.
set(obj, key, value) ==
  IF has(obj, key)
  THEN [i \in 1..Len(obj) |-> IF obj[i].key = key THEN [key |-> key, value |-> value]
                              ELSE obj[i]]
  ELSE IF IsArrayIndex(key)
  THEN SelectSeq(obj, LAMBDA en : IsArrayIndex(en.key))
         \o <<[key |-> key, value |-> value]>>
         \o SelectSeq(obj, LAMBDA en : ~IsArrayIndex(en.key))
  ELSE Append(obj, [key |-> key, value |-> value])

remove(obj, key) == SelectSeq(obj, LAMBDA en : en.key # key)

getEntryById(obj, id) == get(obj, String(id))
setEntry(obj, id, item) == set(obj, String(id), item)
removeEntry(obj, id) == remove(obj, String(id))
entryIsSet(obj, id) == has(obj, String(id))

\* entryValue.some(item => item.id === itemId)
some(entryValue, itemId) ==
  \E j \in 1..Len(entryValue.items) : entryValue.items[j].id = itemId

\* getEntryIdByItemId that does not look whether the entries are arrays.
getEntryIdByItemIdUnchecked(obj, itemId) ==
  LET found == {i \in 1..Len(obj) : \E j \in 1..Len(obj[i].value.items) :
                                      obj[i].value.items[j].id = itemId}
  IN IF found # {} THEN StringKey(obj[Lowest(found)].key) ELSE undefined

\* The entries of one store are all arrays or all single items (TType), so
\* `some` is only called on arrays once the first entry is one.
getEntryIdByItemId(obj, itemId) ==
  IF Len(obj) > 0 /\ obj[1].value.isArray
  THEN LET found == {i \in 1..Len(obj) : some(obj[i].value, itemId)}
       IN IF found # {} THEN StringKey(obj[Lowest(found)].key) ELSE undefined
  ELSE undefined

\* flatMap(values(this._object), entry => entry): arrays are flattened one
\* level, a single item stays an element.
RECURSIVE flatMap(_)
flatMap(obj) ==
  IF obj = << >> THEN << >> ELSE Head(obj).value.items \o flatMap(Tail(obj))

\* lodash find(collection, predicate)
find(items, itemId) ==
  LET found == {j \in 1..Len(items) : items[j].id = itemId}
  IN IF found # {} THEN items[Lowest(found)] ELSE NotFound

\* getItemById that lets the last match win.
getItemByIdLast(obj, itemId) ==
  LET items == flatMap(obj)
      found == {j \in 1..Len(items) : items[j].id = itemId}
  IN IF found # {} THEN items[CHOOSE j \in found : \A i \in found : i <= j] ELSE NotFound

getItemById(obj, itemId) == find(flatMap(obj), itemId)

\* addItem that sets up the entry when there is none.
ObjectStore_addItemInitializing(obj, entryId, item) ==
  LET items == getEntryById(obj, entryId)
  IN IF items.isArray THEN setEntry(obj, entryId, Array(Append(items.items, item)))
     ELSE IF items = NoEntry THEN setEntry(obj, entryId, Array(<<item>>))
     ELSE obj

ObjectStore_addItem(obj, entryId, item) ==
  LET items == getEntryById(obj, entryId)
  IN IF items.isArray THEN setEntry(obj, entryId, Array(Append(items.items, item)))
     ELSE obj

ObjectStore_editItem(obj, itemId, itemUpdateData) ==
  LET entryId == getEntryIdByItemId(obj, itemId)
      entry == getEntryById(obj, entryId)
      itemIndex == {j \in 1..Len(entry.items) : entry.items[j].id = itemId}
  IN IF IsFalsy(entryId) THEN obj
     ELSE IF ~entry.isArray THEN obj
     ELSE IF itemIndex # {}
     THEN setEntry(obj, entryId,
                   Array([entry.items EXCEPT ![Lowest(itemIndex)] = itemUpdateData]))
     ELSE obj

\* entryId is `undefined` when the caller gives no key.
ObjectStore_removeItem(obj, itemId, entryId) ==
  LET resolvedEntryId == IF entryId # undefined THEN entryId
                         ELSE getEntryIdByItemId(obj, itemId)
      entry == getEntryById(obj, resolvedEntryId)
      initialLength == Len(entry.items)
      removed == SelectSeq(entry.items, LAMBDA item : item.id # itemId)
  IN IF IsFalsy(resolvedEntryId) THEN obj
     ELSE IF ~entry.isArray THEN obj
     ELSE IF Len(removed) < initialLength THEN setEntry(obj, resolvedEntryId, Array(removed))
     ELSE obj

\* The values callers set an entry to: an empty group, or one item where the
\* store is used with single items.
EntryValues == {Array(<< >>)} \cup {Single(t) : t \in Targets}

\* setEntry(id, item), with a value of the store's kind of entry.
SetEntry(id, item) ==
  /\ \A i \in 1..Len(_object) :
       _object[i].key # String(id) => _object[i].value.isArray = item.isArray
  /\ _object' = setEntry(_object, id, item)
  /\ UNCHANGED <<isLoading, api, current, collection, heap, calls>>

RemoveEntry(id) ==
  /\ entryIsSet(_object, id)
  /\ _object' = removeEntry(_object, id)
  /\ UNCHANGED <<isLoading, api, current, collection, heap, calls>>

ObjectAddItem(entryId, item) ==
  /\ Len(getEntryById(_object, entryId).items) < MaxLen
  /\ _object' = ObjectStore_addItem(_object, entryId, item)
  /\ UNCHANGED <<isLoading, api, current, collection, heap, calls>>

ObjectEditItem(itemId, itemUpdateData) ==
  /\ _object' = ObjectStore_editItem(_object, itemId, itemUpdateData)
  /\ UNCHANGED <<isLoading, api, current, collection, heap, calls>>

ObjectRemoveItem(itemId, entryId) ==
  /\ _object' = ObjectStore_removeItem(_object, itemId, entryId)
  /\ UNCHANGED <<isLoading, api, current, collection, heap, calls>>

\* ------------------------------------------------------------- specifications
\* What the stub endpoints answer and reject with.
ListResults ==
  { << >>,
    <<[id |-> 1, name |-> "A"]>>,
    <<[id |-> 1, name |-> "B"], [id |-> 2, name |-> "A"]>> }
ApiResults == {[id |-> 1, name |-> "A"]}
CrudErrVals == {[shape |-> "error", body |-> "", msg |-> "fail"]}
CrudEndpoints == {"endpoint", "noSuchEndpoint"}
\* What the application passes to the mutators while a flow runs.
EnvEntities == {[id |-> 1, name |-> "A"], [id |-> 2, name |-> "B"]}
EnvEdits == {[id |-> 1, name |-> Absent], [id |-> 2, name |-> "A"]}

NextApi ==
  \/ SetApi
  \/ \E b \in BOOLEAN : SetIsLoading(b)
  \/ \E n \in EndpointNames : StartApiCall(n)
  \/ \E k \in Slots : EndpointResolveNothing(k)
  \/ \E k \in Slots, e \in ApiResults : EndpointResolveItem(k, e)
  \/ \E k \in Slots, err \in ErrVals : EndpointReject(k, err)
  \/ \E k \in Slots : ApiCallFinally(k)
  \/ \E k \in Slots : ApiCallReturn(k)
  \/ \E k \in Slots : Forget(k)

SpecApi == Init /\ [][NextApi]_vars

\* apiCalls under an event loop that runs every continuation that is due,
\* and endpoints that all answer.  The call records stay.
EndpointSettles(k) ==
  \/ EndpointResolveNothing(k)
  \/ \E e \in ApiResults : EndpointResolveItem(k, e)
  \/ \E err \in ErrVals : EndpointReject(k, err)

NextLive ==
  \/ SetApi
  \/ \E n \in EndpointNames : StartApiCall(n)
  \/ \E k \in Slots : EndpointSettles(k)
  \/ \E k \in Slots : ApiCallFinally(k)
  \/ \E k \in Slots : ApiCallReturn(k)

Fairness ==
  \A k \in Slots : /\ WF_vars(EndpointSettles(k))
                    /\ WF_vars(ApiCallFinally(k))
                    /\ WF_vars(ApiCallReturn(k))

SpecLive == Init /\ [][NextLive]_vars /\ Fairness

\* A store of either class: an ApiStore under its calls, or a bare
\* LoadingStore, which has setIsLoading alone.
InitAnyStore == Init \/ InitLoadingStore

NextAnyStore ==
  \/ api # NoApiField /\ NextApi
  \/ api = NoApiField /\ \E b \in BOOLEAN : SetIsLoading(b)

SpecAnyStore == InitAnyStore /\ [][NextAnyStore]_vars

Next ==
  \/ SetApi
  \/ \E n \in CrudEndpoints, i \in Ids, u \in BOOLEAN : StartFetch(n, i, u)
  \/ \E n \in CrudEndpoints, u \in BOOLEAN : StartFetchAll(n, u)
  \/ \E n \in CrudEndpoints : StartFetchAllEarlier(n)
  \/ \E n \in CrudEndpoints : StartCreate(n)
  \/ \E n \in CrudEndpoints : StartUpdate(n)
  \/ \E n \in CrudEndpoints, i \in Ids : StartDelete(n, i)
  \/ \E k \in Slots : EndpointResolveNothing(k)
  \/ \E k \in Slots, e \in Entities : EndpointResolveItem(k, e)
  \/ \E k \in Slots, es \in ListResults : EndpointResolveList(k, es)
  \/ \E k \in Slots, err \in CrudErrVals : EndpointReject(k, err)
  \/ \E k \in Slots : ApiCallFinally(k)
  \/ \E k \in Slots : FetchCacheResume(k)
  \/ \E k \in Slots : FetchContinue(k)
  \/ \E k \in Slots : FetchAllCacheResume(k)
  \/ \E k \in Slots : FetchAllContinue(k)
  \/ \E k \in Slots : CreateContinue(k)
  \/ \E k \in Slots : UpdateContinue(k)
  \/ \E k \in Slots : DeleteContinue(k)
  \/ \E k \in Slots : Forget(k)
  \/ SetCurrentNull
  \/ \E i \in 1..MaxLen : SetCurrentElement(i)
  \/ \E es \in ListResults : SetCollection(es)
  \/ \E e \in EnvEntities, b \in BOOLEAN : AddItem(e, b)
  \/ \E e \in EnvEntities, b \in BOOLEAN : SetItem(e, b)
  \/ \E e \in EnvEdits, b \in BOOLEAN : EditItem(e, b)
  \/ \E i \in Ids : RemoveItem(i)

Spec == Init /\ [][Next]_vars

NextStore ==
  \/ SetCurrentNull
  \/ \E i \in 1..MaxLen : SetCurrentElement(i)
  \/ \E es \in ListResults : SetCollection(es)
  \/ \E e \in Entities, b \in BOOLEAN : AddItem(e, b)
  \/ \E e \in Entities, b \in BOOLEAN : SetItem(e, b)
  \/ \E e \in Entities, b \in BOOLEAN : EditItem(e, b)
  \/ \E i \in Ids : RemoveItem(i)

SpecStore == Init /\ [][NextStore]_vars

\* Flows that overlap: the application fills the store, then starts
\* _create, _update and _delete without waiting for the ones before.  The
\* call records stay, so a lower slot is an earlier call.
NextOverlap ==
  \/ SetApi
  \/ \E e \in EnvEntities, b \in BOOLEAN : NoFlow /\ AddItem(e, b)
  \/ \E n \in CrudEndpoints : StartCreateOverlapping(n)
  \/ \E n \in CrudEndpoints : StartUpdateOverlapping(n)
  \/ \E n \in CrudEndpoints, i \in Ids : StartDeleteOverlapping(n, i)
  \/ \E k \in Slots : EndpointResolveNothing(k)
  \/ \E k \in Slots, e \in EnvEntities : EndpointResolveItem(k, e)
  \/ \E k \in Slots, err \in CrudErrVals : EndpointReject(k, err)
  \/ \E k \in Slots : ApiCallFinally(k)
  \/ \E k \in Slots : CreateContinue(k)
  \/ \E k \in Slots : UpdateContinue(k)
  \/ \E k \in Slots : DeleteContinue(k)

SpecOverlap == Init /\ [][NextOverlap]_vars

\* _create flows that overlap, on a store the application has filled.
NextCreates ==
  \/ SetApi
  \/ \E e \in EnvEntities, b \in BOOLEAN : NoFlow /\ AddItem(e, b)
  \/ \E n \in CrudEndpoints : StartCreateOverlapping(n)
  \/ \E k \in Slots : EndpointResolveNothing(k)
  \/ \E k \in Slots, e \in EnvEntities : EndpointResolveItem(k, e)
  \/ \E k \in Slots, err \in CrudErrVals : EndpointReject(k, err)
  \/ \E k \in Slots : ApiCallFinally(k)
  \/ \E k \in Slots : CreateContinue(k)

SpecCreates == Init /\ [][NextCreates]_vars

\* One _fetch after another: the application fills the store, then only
\* fetches, so nothing is removed and the collection is never set anew.
NextCache ==
  \/ SetApi
  \/ \E e \in EnvEntities, b \in BOOLEAN : NoFlow /\ AddItem(e, b)
  \/ \E n \in CrudEndpoints, i \in Ids, u \in BOOLEAN : StartFetchAfter(n, i, u)
  \/ \E k \in Slots : EndpointResolveNothing(k)
  \/ \E k \in Slots, e \in EnvEntities : EndpointResolveItem(k, e)
  \/ \E k \in Slots, err \in CrudErrVals : EndpointReject(k, err)
  \/ \E k \in Slots : ApiCallFinally(k)
  \/ \E k \in Slots : FetchCacheResume(k)
  \/ \E k \in Slots : FetchContinue(k)
  \/ \E k \in Slots : Forget(k)

SpecCache == Init /\ [][NextCache]_vars

\* An ObjectStore under its keyed operations alone.
NextObject ==
  \/ \E id \in KeyArgs, item \in EntryValues : SetEntry(id, item)
  \/ \E id \in KeyArgs : RemoveEntry(id)
  \/ \E id \in KeyArgs, item \in Targets : ObjectAddItem(id, item)
  \/ \E itemId \in Ids, item \in Targets : ObjectEditItem(itemId, item)
  \/ \E itemId \in Ids, id \in KeyArgs \cup {undefined} : ObjectRemoveItem(itemId, id)

SpecObject == Init /\ [][NextObject]_vars

\* ------------------------------------------------------------- properties of apiCall (SpecApi)
\* A flow starts in slot k.
Enters(k) == calls[k].pc = "idle" /\ calls'[k].pc # "idle"
\* apiCall's finally block runs for slot k.
Finalizes(k) == calls[k].pc = "settled" /\ calls'[k].pc = "finalized"
Alone(k) == \A j \in Slots \ {k} : calls[j].pc = "idle"

\* C1: an apiCall issued while api is null fails with the configuration
\* error "Api is not set", and from its start to its end that call has
\* looked up no member of a client and invoked no endpoint.
C1_NoApiFailsFast ==
  /\ [][\A k \in Slots : (api = NoApi /\ Enters(k)) =>
          /\ calls'[k].outcome = "error"
          /\ calls'[k].error = [type |-> "Error", message |-> ApiNotSet]
          /\ calls'[k].lookups = 0
          /\ calls'[k].invoked = 0]_vars
  /\ [](\A k \in Slots : calls[k].error.message = ApiNotSet =>
          /\ calls[k].outcome = "error"
          /\ calls[k].lookups = 0
          /\ calls[k].invoked = 0)

C1_Witness ==
  \E k \in Slots : /\ api = NoApi
                    /\ calls[k].pc = "returned"
                    /\ calls[k].error.message = ApiNotSet

\* C2: whenever the caller of an apiCall sees its result or its error, whatever
\* the outcome, that call's finally block has set isLoading to false.
C2_LoadingResetBeforeReturn ==
  \A k \in Slots : calls[k].pc = "returned" => calls[k].loadingAfterFinally = "false"

C2_Witness ==
  \E j, k \in Slots : /\ calls[j].pc = "returned" /\ calls[j].outcome = "value"
                       /\ calls[k].pc = "returned" /\ calls[k].rejected # NoErr
                       /\ calls[j].loadingAfterFinally = "false"
                       /\ calls[k].loadingAfterFinally = "false"

\* C3: around one apiCall on a store with api set: entering the call makes
\* isLoading true; while its endpoint is in flight the flag falls only when an
\* overlapping call runs its finally block (so with no overlapping call it
\* stays true); the finally block after a success makes it false.
C3_LoadingFalseTrueFalse ==
  [][\A k \in Slots :
       /\ (api # NoApi /\ Enters(k)) => isLoading'
       /\ (calls[k].pc = "inflight" /\ calls'[k].pc = "inflight" /\ isLoading /\ ~isLoading')
            => \E j \in Slots \ {k} : Finalizes(j)
       /\ (Finalizes(k) /\ calls[k].outcome \in {"value", "nothing"}) => ~isLoading']_vars

\* One call, nothing overlapping, has succeeded and the flag is down again.
C3_Witness ==
  \E k \in Slots : /\ Alone(k)
                    /\ calls[k].pc = "returned"
                    /\ calls[k].outcome = "value"
                    /\ calls[k].invoked = 1
                    /\ ~isLoading

\* C4: when an apiCall completes while another one is still in flight, its
\* finally block makes isLoading false all the same: calls are not counted.
C4_FirstToFinishClearsFlag ==
  [][\A j, k \in Slots :
       (j # k /\ calls[j].pc = "inflight" /\ calls'[j].pc = "inflight" /\ Finalizes(k))
         => ~isLoading']_vars

\* isLoading is false while a call is in flight.
C4_Witness ==
  \E j, k \in Slots : /\ calls[j].pc = "inflight"
                       /\ calls[k].pc \in {"finalized", "returned"}
                       /\ calls[k].invoked = 1
                       /\ ~isLoading

\* The message the specification has a rejection carry: the response body's
\* message, else the Error's message, else the default for a falsy value,
\* else the stringified value.
NormalizedMessage(err) ==
  IF err.shape = "response" THEN JSONstringify(err.body)
  ELSE IF err.shape = "error" THEN err.msg
  ELSE IF Falsy(err) THEN DefaultMessage
  ELSE Stringified(err)

\* C5: an apiCall whose endpoint threw or rejected has invoked the endpoint
\* once, and its caller sees no result but one Error carrying the message
\* extracted from what the endpoint rejected with.
C5_RejectionNormalized ==
  \A k \in Slots : (calls[k].pc = "returned" /\ calls[k].rejected # NoErr) =>
     /\ calls[k].invoked = 1
     /\ calls[k].outcome = "error"
     /\ calls[k].error = [type |-> "Error", message |-> NormalizedMessage(calls[k].rejected)]

\* C6: an apiCall issued with api set for a name that is no function of the
\* client fails with the error of the failed member call, has invoked no
\* endpoint, and its finally block has left isLoading false.
C6_UnknownEndpointFails ==
  /\ [][\A k \in Slots :
          (api # NoApi /\ Enters(k) /\ ClientMember(api, calls'[k].endpoint) # "function") =>
             /\ calls'[k].outcome = "error"
             /\ calls'[k].error = [type |-> "Error", message |-> NotAFunction]
             /\ calls'[k].invoked = 0]_vars
  /\ [](\A k \in Slots : calls[k].error.message = NotAFunction =>
          /\ calls[k].outcome = "error"
          /\ calls[k].invoked = 0
          /\ calls[k].pc \in {"finalized", "returned"} => calls[k].loadingAfterFinally = "false")

C6_Witness ==
  \E k \in Slots : /\ api # NoApi
                    /\ calls[k].pc = "returned"
                    /\ calls[k].endpoint = "noSuchEndpoint"
                    /\ calls[k].error.message = NotAFunction
                    /\ ~isLoading

\* ------------------------------------------------------------- properties of the CRUD flows (Spec)
\* What an observer of the store sees: `collection`, `current`, and the
\* values of the objects they hold.
StoreView ==
  <<collection, current,
    [i \in 1..Len(collection) |-> heap[collection[i]]],
    IF current = NoRef THEN Free ELSE heap[current]>>

\* The flow in slot k moves on (the mutators never move a flow).
Moves(k) == calls[k].pc # calls'[k].pc

\* C7: _fetchAll with useCache on a store whose collection is not empty does
\* not go to the endpoint: it waits for the cache lookup and then returns the
\* store's own collection array, and neither step changes the store.
C7_FetchAllCacheHit ==
  [][\A k \in Slots :
       /\ (Enters(k) /\ calls'[k].kind = "_fetchAll" /\ calls'[k].useCache
              /\ Len(collection) > 0) =>
             /\ calls'[k].pc = "cacheWait"
             /\ calls'[k].invoked = 0
             /\ UNCHANGED StoreView
       /\ (calls[k].kind = "_fetchAll" /\ calls[k].pc = "cacheWait" /\ Moves(k)) =>
             /\ calls'[k].pc = "returned"
             /\ calls'[k].outcome = "value"
             /\ calls'[k].live
             /\ calls'[k].invoked = 0
             /\ UNCHANGED StoreView]_vars

C7_Witness ==
  \E k \in Slots : /\ calls[k].kind = "_fetchAll"
                    /\ calls[k].useCache
                    /\ calls[k].pc = "returned"
                    /\ calls[k].outcome = "value"
                    /\ calls[k].live
                    /\ calls[k].invoked = 0
                    /\ Len(collection) > 0

\* C8: _fetch with useCache for an id getById finds does not go to the
\* endpoint: it waits for the lookup and then returns the very object getById
\* found, and neither step changes the store.
C8_FetchCacheHit ==
  [][\A k \in Slots :
       /\ (Enters(k) /\ calls'[k].kind = "_fetch" /\ calls'[k].useCache
              /\ getById(Store, calls'[k].id) # NoRef) =>
             /\ calls'[k].pc = "cacheWait"
             /\ calls'[k].item = getById(Store, calls'[k].id)
             /\ calls'[k].invoked = 0
             /\ UNCHANGED StoreView
       /\ (calls[k].kind = "_fetch" /\ calls[k].pc = "cacheWait" /\ calls[k].item # NoRef
              /\ Moves(k)) =>
             /\ calls'[k].pc = "returned"
             /\ calls'[k].outcome = "value"
             /\ calls'[k].item = calls[k].item
             /\ calls'[k].invoked = 0
             /\ UNCHANGED StoreView]_vars

C8_Witness ==
  \E k \in Slots : /\ calls[k].kind = "_fetch"
                    /\ calls[k].useCache
                    /\ calls[k].pc = "returned"
                    /\ calls[k].outcome = "value"
                    /\ calls[k].invoked = 0
                    /\ calls[k].item # NoRef
                    /\ calls[k].item = getById(Store, calls[k].id)

\* C9: when _fetch has called the endpoint and got an item e, its last step
\* returns e and leaves current = e, e in every collection slot whose element
\* had e's id, and every other slot with the object it had: same value, same
\* position, shared with the same slots as before and not with e.
C9_FetchAppliesSetItem ==
  [][\A k \in Slots :
       (calls[k].kind = "_fetch" /\ calls[k].pc = "finalized" /\ calls[k].outcome = "value"
          /\ Moves(k)) =>
         LET e == calls'[k].item
             id == heap[calls[k].item].id
             Kept == {i \in 1..Len(collection) : heap[collection[i]].id # id}
         IN /\ calls'[k].pc = "returned"
            /\ calls'[k].outcome = "value"
            /\ calls[k].invoked = 1
            /\ e # NoRef
            /\ heap'[e] = heap[calls[k].item]
            /\ current' = e
            /\ Len(collection') = Len(collection)
            /\ \A i \in 1..Len(collection) \ Kept : collection'[i] = e
            /\ \A i \in Kept : /\ collection'[i] # e
                                /\ heap'[collection'[i]] = heap[collection[i]]
            /\ \A i, j \in Kept : (collection'[i] = collection'[j]) <=> (collection[i] = collection[j])]_vars

\* The item has taken the place of one element and another one is as it was.
C9_Witness ==
  \E k \in Slots : /\ calls[k].kind = "_fetch"
                    /\ calls[k].pc = "returned"
                    /\ calls[k].outcome = "value"
                    /\ calls[k].invoked = 1
                    /\ current = calls[k].item
                    /\ \E i, j \in 1..Len(collection) :
                          collection[i] = calls[k].item /\ collection[j] # calls[k].item

\* C10: no step of a _fetch flow but the one that applies setItem changes the
\* store, and when the endpoint has answered with nothing the flow returns
\* undefined and no error.
C10_FetchNothingLeavesStore ==
  [][\A k \in Slots :
       ((calls[k].kind = "_fetch" \/ calls'[k].kind = "_fetch") /\ Moves(k)
          /\ ~(calls[k].pc = "finalized" /\ calls[k].outcome = "value")) =>
         /\ UNCHANGED StoreView
         /\ (calls[k].pc = "finalized" /\ calls[k].outcome = "nothing") =>
               /\ calls'[k].pc = "returned"
               /\ calls'[k].outcome = "nothing"
               /\ calls'[k].item = NoRef
               /\ calls'[k].error = NoError]_vars

C10_Witness ==
  \E k \in Slots : /\ calls[k].kind = "_fetch"
                    /\ calls[k].pc = "returned"
                    /\ calls[k].outcome = "nothing"
                    /\ calls[k].invoked = 1
                    /\ calls[k].error = NoError
                    /\ getById(Store, calls[k].id) # NoRef
                    /\ Len(collection) > 0

\* C11: a _fetchAll called without useCache, or on an empty collection, goes
\* to the endpoint (and invokes it when api is set and the name is a function
\* of the client); and when the endpoint has answered with a list, the flow's
\* last step makes exactly that list the collection.
C11_FetchAllCallsEndpoint ==
  [][\A k \in Slots :
       /\ (Enters(k) /\ calls'[k].kind = "_fetchAll"
              /\ (~calls'[k].useCache \/ Len(collection) = 0)) =>
             /\ calls'[k].pc # "cacheWait"
             /\ (api # NoApi /\ ClientMember(api, calls'[k].endpoint) = "function") =>
                   calls'[k].pc = "inflight" /\ calls'[k].invoked = 1
       /\ (calls[k].kind = "_fetchAll" /\ calls[k].pc = "finalized"
              /\ calls[k].outcome = "value" /\ Moves(k)) =>
             /\ calls'[k].pc = "returned"
             /\ calls'[k].live
             /\ Len(collection') = Len(calls[k].items)
             /\ \A i \in 1..Len(collection') :
                   heap'[collection'[i]] = heap[calls[k].items[i]]]_vars

\* C12: when _fetchAll has called the endpoint and got nothing, its last step
\* empties the collection, whatever it held, leaves current alone, and the
\* flow returns undefined and no error.
C12_FetchAllNothingEmpties ==
  [][\A k \in Slots :
       (calls[k].kind = "_fetchAll" /\ calls[k].pc = "finalized"
          /\ calls[k].outcome = "nothing" /\ Moves(k)) =>
         /\ calls'[k].pc = "returned"
         /\ calls'[k].outcome = "nothing"
         /\ calls'[k].error = NoError
         /\ collection' = << >>
         /\ (current = NoRef) <=> (current' = NoRef)
         /\ current # NoRef => heap'[current'] = heap[current]]_vars

C12_Witness ==
  \E k \in Slots : /\ calls[k].kind = "_fetchAll"
                    /\ calls[k].pc = "returned"
                    /\ calls[k].outcome = "nothing"
                    /\ calls[k].invoked = 1
                    /\ calls[k].error = NoError
                    /\ collection = << >>
                    /\ current # NoRef

ViewOf(st) ==
  <<st.coll, st.cur,
    [i \in 1..Len(st.coll) |-> st.h[st.coll[i]]],
    IF st.cur = NoRef THEN Free ELSE st.h[st.cur]>>

C15_DeleteAfterSuccess ==
  [][\A k \in Slots :
       ((calls[k].kind = "_delete" \/ calls'[k].kind = "_delete") /\ Moves(k)) =>
         IF calls[k].pc = "finalized" /\ calls[k].outcome # "error"
         THEN LET id == calls[k].id
                  Was == [i \in 1..Len(collection) |-> heap[collection[i]]]
                  Is == [i \in 1..Len(collection') |-> heap'[collection'[i]]]
              IN /\ calls'[k].pc = "returned"
                 /\ calls'[k].error = NoError
                 /\ Is = SelectSeq(Was, LAMBDA v : v.id # id)
                 /\ IF IdOf(heap, current) = id THEN current' = NoRef
                    ELSE ViewOf(Store')[4] = ViewOf(Store)[4]
         ELSE UNCHANGED StoreView]_vars

\* A delete has succeeded on a store that held the item and another one.
C15_Witness ==
  \E k \in Slots : /\ calls[k].kind = "_delete"
                    /\ calls[k].pc = "returned"
                    /\ calls[k].invoked = 1
                    /\ calls[k].error = NoError
                    /\ getById(Store, calls[k].id) = NoRef
                    /\ Len(collection) > 0

\* ------------------------------------------------------------- properties of the store's mutators
\* The store once the caller has built the object e it is about to pass:
\* [st, r], the store state and the new object's reference.
WithNew(e) ==
  LET a == Fresh(e) IN [st |-> [Store EXCEPT !.h = a.h], r |-> a.refs[1]]

\* C16: in every state, for every entity e: after addItem(e, true) current is
\* e itself and so is getById(e.id), also when the collection already holds
\* an element with that id; after addItem(e, false) current is the object it
\* was.
C16_AddItemSelects ==
  \A e \in Entities :
    FreeRefs(heap) # {} =>
      LET n == WithNew(e)
          on == addItem(n.st, n.r, TRUE)
          off == addItem(n.st, n.r, FALSE)
      IN /\ on.cur = n.r
         /\ getById(on, e.id) = n.r
         /\ on.h[n.r] = e
         /\ off.cur = current
         /\ current # NoRef => off.h[current] = heap[current]

\* addItem(e, true) has run on a collection that held e's id already: the new
\* object is current and what getById finds.
C16_Witness ==
  /\ Len(collection) = 2
  /\ current = collection[2]
  /\ collection[1] # collection[2]
  /\ heap[collection[1]].id = heap[current].id
  /\ getById(Store, heap[current].id) = collection[2]

\* C17: in every state, for every entity e and either flag: after addItem the
\* collection is the one before followed by e, the earlier elements with the
\* values they had, whether or not an element with e's id was there.
C17_AddItemAppends ==
  \A e \in Entities, b \in BOOLEAN :
    FreeRefs(heap) # {} =>
      LET n == WithNew(e)
          after == addItem(n.st, n.r, b)
      IN /\ after.coll = Append(collection, n.r)
         /\ Len(after.coll) = Len(collection) + 1
         /\ after.h[n.r] = e
         /\ \A i \in 1..Len(collection) : after.h[after.coll[i]] = heap[collection[i]]

\* Two elements of one id, added one after the other.
C17_Witness ==
  \E i, j \in 1..Len(collection) :
    /\ i < j
    /\ collection[i] # collection[j]
    /\ heap[collection[i]].id = heap[collection[j]].id
    /\ heap[collection[i]].name # heap[collection[j]].name

C19_SetItemAddsMissing ==
  \A e \in Entities :
    (FreeRefs(heap) # {} /\ Matching(Store, e.id) = {}) =>
      LET n == WithNew(e)
          after == setItem(n.st, n.r, TRUE)
      IN n.r \in Range(after.coll)

\* C20: in every state, for every entity e, either flag and every element
\* that has e's id: after editItem(e) the element is the same object in the
\* same slot, with e's value in each field e has and its own value in each
\* field e lacks.
C20_EditItemMerges ==
  \A e \in Entities, b \in BOOLEAN :
    LET after == editItem(Store, e, b)
    IN \A i \in Matching(Store, e.id) :
         /\ after.coll[i] = collection[i]
         /\ after.h[collection[i]].id = e.id
         /\ after.h[collection[i]].name =
              IF e.name = Absent THEN heap[collection[i]].name ELSE e.name

\* An element with a name that an editItem of its id without a name keeps,
\* and that an editItem with another name changes.
C20_Witness ==
  \E i \in 1..Len(collection), e, f \in Entities :
    /\ e.id = heap[collection[i]].id /\ f.id = e.id
    /\ heap[collection[i]].name # Absent
    /\ e.name = Absent
    /\ f.name \notin {Absent, heap[collection[i]].name}
    /\ editItem(Store, e, TRUE).h[collection[i]] = heap[collection[i]]
    /\ editItem(Store, f, TRUE).h[collection[i]] = f

\* current and the elements of id i of the store state st have the same
\* field values, if current has id i.
Synchronized(st, i) ==
  (st.cur # NoRef /\ st.h[st.cur].id = i) =>
    \A j \in Matching(st, i) : st.h[st.coll[j]] = st.h[st.cur]

\* C21: in every state, for every entity e and either flag: after setItem(e),
\* after editItem(e) and after removeItem(e.id), current, if it has e's id,
\* has the field values of every element that has e's id.
C21_CurrentSynchronized ==
  \A e \in Entities, b \in BOOLEAN :
    FreeRefs(heap) # {} =>
      LET n == WithNew(e)
      IN /\ Synchronized(setItem(n.st, n.r, b), e.id)
         /\ Synchronized(editItem(Store, e, b), e.id)
         /\ Synchronized(removeItem(Store, e.id), e.id)

\* C22: in every state, for every entity e and either flag: when current is
\* an object of another id than e's, editItem(e) leaves that object as it
\* was, id included.
C22_EditItemLeavesOtherCurrent ==
  \A e \in Entities, b \in BOOLEAN :
    (current # NoRef /\ heap[current].id # e.id) =>
      LET after == editItem(Store, e, b)
      IN after.cur = current /\ after.h[current] = heap[current]

\* The values a sequence of references holds in heap h.
Values(h, coll) == [i \in 1..Len(coll) |-> h[coll[i]]]

\* s without its first element of id `id`.
RECURSIVE WithoutFirst(_, _)
WithoutFirst(s, id) ==
  IF s = << >> THEN << >>
  ELSE IF Head(s).id = id THEN Tail(s)
  ELSE <<Head(s)>> \o WithoutFirst(Tail(s), id)

\* C23: in every state, for every id: after removeItem(id) the collection is
\* the one before without its first element of that id, every other element,
\* later ones of that id too, with its value and in its order.
C23_RemoveItemFirstOnly ==
  \A id \in Ids :
    LET after == removeItem(Store, id)
    IN Values(after.h, after.coll) = WithoutFirst(Values(heap, collection), id)

\* C24: in every state, for every id: after removeItem(id) current is null if
\* it had that id, and is the object it was, with the values it had, if it
\* was null or had another id.
C24_RemoveItemCurrent ==
  \A id \in Ids :
    LET after == removeItem(Store, id)
    IN IF IdOf(heap, current) = id
       THEN after.cur = NoRef
       ELSE after.cur = current /\ after.h = heap

\* removeItem has taken an element away and left current, of another id.
C24_Witness ==
  /\ current # NoRef
  /\ \E id \in Ids :
       /\ heap[current].id # id
       /\ Matching(Store, id) # {}
       /\ removeItem(Store, id).cur = current
       /\ Len(removeItem(Store, id).coll) < Len(collection)
  /\ removeItem(Store, heap[current].id).cur = NoRef

\* C25: in every state, for every id: getById(id) is current when current
\* has that id, whatever the collection holds; otherwise the element of that
\* id in the lowest slot; otherwise nothing.
C25_GetByIdCurrentFirst ==
  \A id \in Ids :
    LET found == getById(Store, id)
        hits == {i \in 1..Len(collection) : heap[collection[i]].id = id}
    IN IF current # NoRef /\ heap[current].id = id THEN found = current
       ELSE IF hits = {} THEN found = NoRef
       ELSE \E i \in hits : found = collection[i] /\ \A j \in hits : i <= j

\* current and an element of another value share an id, and getById finds
\* current.
C25_Witness ==
  \E i \in 1..Len(collection) :
    /\ current # NoRef
    /\ current # collection[i]
    /\ heap[current].id = heap[collection[i]].id
    /\ heap[current].name # heap[collection[i]].name
    /\ getById(Store, heap[current].id) = current

\* ------------------------------------------------------------- properties of ObjectStore (SpecObject)
AllArrays == \A i \in 1..Len(_object) : _object[i].value.isArray
AllSingle == \A i \in 1..Len(_object) : ~_object[i].value.isArray

\* The entries whose array holds an element of id itemId.
Holding(itemId) ==
  {i \in 1..Len(_object) : /\ _object[i].value.isArray
                           /\ \E j \in 1..Len(_object[i].value.items) :
                                _object[i].value.items[j].id = itemId}

\* C26: in every state and for every item id: where all entries are arrays,
\* getEntryIdByItemId gives the key of the first entry whose array holds an
\* element of that id, and nothing when no array holds one; where the map is
\* empty or all entries are single items it gives nothing.
C26_GetEntryIdByItemId ==
  \A itemId \in Ids :
    LET found == getEntryIdByItemId(_object, itemId)
    IN /\ (AllArrays /\ Holding(itemId) # {}) =>
            \E i \in Holding(itemId) :
               /\ found = StringKey(_object[i].key)
               /\ \A h \in Holding(itemId) : i <= h
       /\ (AllArrays /\ Holding(itemId) = {}) => found = undefined
       /\ (_object = << >> \/ AllSingle) => found = undefined

\* Two groups hold an element of one id and the first of them is found; and
\* an id no group holds is not found.
C26_Witness ==
  /\ AllArrays
  /\ \E itemId \in Ids :
       /\ Cardinality(Holding(itemId)) > 1
       /\ getEntryIdByItemId(_object, itemId) = StringKey(_object[Lowest(Holding(itemId))].key)
  /\ \E itemId \in Ids :
       Holding(itemId) = {} /\ getEntryIdByItemId(_object, itemId) = undefined

\* C27: in every state and for every item id: getItemById gives the element
\* of that id that comes first when the entries are read in key order and
\* each array from its start, and nothing when no entry holds one.
C27_GetItemByIdFirstMatch ==
  \A itemId \in Ids :
    LET found == getItemById(_object, itemId)
        At == {p \in (1..Len(_object)) \X (1..MaxLen) :
                 /\ p[2] <= Len(_object[p[1]].value.items)
                 /\ _object[p[1]].value.items[p[2]].id = itemId}
    IN IF At = {} THEN found = NotFound
       ELSE \E p \in At :
              /\ found = _object[p[1]].value.items[p[2]]
              /\ \A q \in At : p[1] < q[1] \/ (p[1] = q[1] /\ p[2] <= q[2])

\* Two keys hold elements of one id with different values, and the one
\* under the first key is found.
C27_Witness ==
  \E itemId \in Ids : \E i, k \in 1..Len(_object) :
    /\ i < k
    /\ AllArrays
    /\ ~some(_object[i].value, 3 - itemId)
    /\ some(_object[i].value, itemId)
    /\ some(_object[k].value, itemId)
    /\ find(_object[i].value.items, itemId) # find(_object[k].value.items, itemId)
    /\ getItemById(_object, itemId) = find(_object[i].value.items, itemId)
    /\ getItemById(_object, 3 - itemId) = find(_object[k].value.items, 3 - itemId)

\* C28: in every state, for every key and item: where the entry at the key
\* is an array, addItem leaves the keys as they are, the array at the key
\* with the item appended, and every other entry as it was; where there is
\* no entry at the key, or one that is no array, the map stays as it is.
C28_ObjectAddItem ==
  \A entryId \in KeyArgs, item \in Targets :
    LET after == ObjectStore_addItem(_object, entryId, item)
        at == {i \in 1..Len(_object) : _object[i].key = entryId.s}
    IN IF \E i \in at : _object[i].value.isArray
       THEN /\ Len(after) = Len(_object)
            /\ \A i \in 1..Len(_object) :
                 /\ after[i].key = _object[i].key
                 /\ after[i].value.isArray = _object[i].value.isArray
                 /\ after[i].value.items =
                      IF i \in at THEN _object[i].value.items \o <<item>>
                      ELSE _object[i].value.items
       ELSE after = _object

\* One key holds a group that is not empty, another key is not set.
C28_Witness ==
  \E entryId, other \in KeyArgs :
    /\ entryIsSet(_object, entryId)
    /\ getEntryById(_object, entryId).isArray
    /\ Len(getEntryById(_object, entryId).items) > 0
    /\ ~entryIsSet(_object, other)
    /\ Len(_object) > 1
    /\ ObjectStore_addItem(_object, entryId, [id |-> 2, name |-> "A"]) # _object
    /\ ObjectStore_addItem(_object, other, [id |-> 2, name |-> "A"]) = _object

\* C29: in every state, for every item id and item: where some array holds
\* an element of that id, editItem leaves the map as it was but for the first
\* such element of the first such entry, which is the item; where none
\* does, the map stays as it is.
C29_ObjectEditItem ==
  \A itemId \in Ids, item \in Targets :
    AllArrays =>
      LET after == ObjectStore_editItem(_object, itemId, item)
      IN IF Holding(itemId) = {} THEN after = _object
         ELSE \E i \in Holding(itemId) :
                /\ \A h \in Holding(itemId) : i <= h
                /\ after = [_object EXCEPT ![i].value.items =
                              [@ EXCEPT ![Lowest({j \in 1..Len(@) : @[j].id = itemId})] = item]]

\* C30: in every state, for every item id: removeItem with a key takes the
\* elements of that id out of the array at that key, whichever value of the
\* key type the key is, and leaves the other entries; removeItem without a
\* key does so at the key getEntryIdByItemId gives; with nothing to remove
\* the map stays as it is.
C30_ObjectRemoveItem ==
  \A itemId \in Ids :
    AllArrays =>
      /\ \A entryId \in KeyArgs :
           ObjectStore_removeItem(_object, itemId, entryId) =
             [i \in 1..Len(_object) |->
                IF _object[i].key = entryId.s
                THEN [_object[i] EXCEPT !.value.items =
                        SelectSeq(@, LAMBDA item : item.id # itemId)]
                ELSE _object[i]]
      /\ ObjectStore_removeItem(_object, itemId, undefined) =
           [i \in 1..Len(_object) |->
              IF Holding(itemId) # {} /\ i = Lowest(Holding(itemId))
              THEN [_object[i] EXCEPT !.value.items =
                      SelectSeq(@, LAMBDA item : item.id # itemId)]
              ELSE _object[i]]

\* ------------------------------------------------------------- properties of getErrorMessage (SpecApi)
\* The default messages a caller may pass: none (the built-in one), or one
\* of its own.
DefaultMessages == {DefaultMessage, "custom"}

\* C31: for every value an endpoint has rejected with that is not falsy, and
\* every default message: getErrorMessage returns the message of the
\* response body where the value has a response (also where it is an Error
\* with a message of its own), else the message of an Error, else the
\* stringified value.
C31_GetErrorMessageNonFalsy ==
  \A k \in Slots : \A d \in DefaultMessages :
    (calls[k].rejected # NoErr /\ ~Falsy(calls[k].rejected)) =>
      getErrorMessage(calls[k].rejected, d) =
        [threw |-> FALSE,
         msg |-> IF calls[k].rejected.shape = "response"
                 THEN JSONstringify(calls[k].rejected.body)
                 ELSE IF calls[k].rejected.shape = "error" THEN calls[k].rejected.msg
                 ELSE Stringified(calls[k].rejected)]

\* C32: for every falsy value an endpoint has rejected with, and every
\* default message: getErrorMessage returns the default message, and the
\* call fails with an Error that carries the built-in default message.
C32_GetErrorMessageFalsy ==
  \A k \in Slots :
    (calls[k].rejected # NoErr /\ Falsy(calls[k].rejected)) =>
      /\ \A d \in DefaultMessages :
           getErrorMessage(calls[k].rejected, d) = [threw |-> FALSE, msg |-> d]
      /\ calls[k].error = [type |-> "Error", message |-> DefaultMessage]

\* ------------------------------------------------------------- properties of the flag (SpecAnyStore)
\* setApi leaves the flag, and the flag changes only where an apiCall starts
\* or runs its finally block, or in a setIsLoading, which changes no more.
FlagChangesByCallOrSetter ==
  /\ api' # api => isLoading' = isLoading
  /\ isLoading' # isLoading =>
       \/ \E k \in Slots : Enters(k) \/ Finalizes(k)
       \/ UNCHANGED <<api, calls>>

\* C33: a store of any class, a bare LoadingStore too, has isLoading true
\* right after its construction, and the flag keeps its value until an
\* apiCall or a setIsLoading changes it; setApi leaves it.
C33_EveryStoreStartsLoading ==
  /\ isLoading = TRUE
  /\ [][FlagChangesByCallOrSetter]_vars

\* C33, amended: an ApiStore has isLoading true right after its
\* construction and a bare LoadingStore has it false, and the flag keeps its
\* value until an apiCall or a setIsLoading changes it; setApi leaves it.
C33_ApiStoreStartsLoading ==
  /\ isLoading <=> api # NoApiField
  /\ [][FlagChangesByCallOrSetter]_vars

\* An ApiStore whose api was set and whose flag is still up, no call made.
C33_Witness ==
  /\ api = TheClient
  /\ isLoading
  /\ \A k \in Slots : calls[k] = IdleCall

\* ------------------------------------------------------------- properties of editItem and aliasing (SpecStore)
\* C34: in every state, current an element of the collection or not, for
\* every entity e and either flag: after editItem(e) the collection holds
\* the ids it held, in their order, and every element of another id than
\* e's has the value it had.
C34_EditItemFrame ==
  \A e \in Entities, b \in BOOLEAN :
    LET after == editItem(Store, e, b)
    IN /\ Len(after.coll) = Len(collection)
       /\ \A i \in 1..Len(collection) :
            /\ after.h[after.coll[i]].id = heap[collection[i]].id
            /\ heap[collection[i]].id # e.id =>
                 after.h[after.coll[i]] = heap[collection[i]]

\* ------------------------------------------------------------- properties of overlapping flows (SpecOverlap)
\* C35: where an _update whose endpoint has answered with an item of id X
\* goes on after a _delete of X, started after it, has succeeded, the
\* collection has no element of id X afterwards, and its elements have the
\* values they had.
C35_LateUpdateAfterDelete ==
  [][\A k, j \in Slots :
       (/\ k < j
        /\ calls[k].kind = "_update" /\ calls[k].pc = "finalized"
        /\ calls[k].outcome = "value" /\ Moves(k)
        /\ calls[j].kind = "_delete" /\ calls[j].pc = "returned"
        /\ calls[j].outcome = "nothing"
        /\ calls[j].id = heap[calls[k].item].id) =>
         /\ \A i \in 1..Len(collection') :
              heap'[collection'[i]].id # heap[calls[k].item].id
         /\ Values(heap', collection') = Values(heap, collection)]_vars

\* ------------------------------------------------------------- properties of the fetch cache (SpecCache)
\* The record of slot j is that of a _fetch of id X that went to the
\* endpoint and came back with an item of id X.
Fetched(j, X) ==
  /\ calls[j].kind = "_fetch" /\ calls[j].pc = "returned"
  /\ calls[j].id = X /\ calls[j].outcome = "value" /\ calls[j].invoked = 1
  /\ calls[j].item # NoRef /\ heap[calls[j].item].id = X

\* C36: while nothing is removed and the collection is not set anew: once a
\* _fetch of id X has come back from the endpoint with the item, a later
\* _fetch of X with useCache invokes no endpoint, whatever was fetched in
\* between.
C36_FetchedStaysCached ==
  \A j, k \in Slots : \A X \in Ids :
    (/\ j # k
     /\ Fetched(j, X)
     /\ calls[k].kind = "_fetch" /\ calls[k].useCache /\ calls[k].id = X
     /\ calls[k].pc \notin {"idle", "returned"}) =>
       calls[k].invoked = 0

\* ------------------------------------------------------------- properties of failing flows (Spec)
CrudKinds == {"_fetch", "_fetchAll", "_create", "_update", "_delete"}

Created(k) ==
  calls[k].kind = "_create" /\ calls[k].pc = "returned" /\ calls[k].outcome = "value"

\* C38: where a _create whose endpoint has answered with an item completes
\* while another _create of the store is under way or over, the collection
\* is the one before with that item appended, and current is that item; and
\* when two _create flows have completed with an item, both items are
\* elements of the collection, the one completed first before the other,
\* and current is the last element.
C38_OverlappingCreates ==
  /\ [][\A k \in Slots :
          (/\ calls[k].kind = "_create" /\ calls[k].pc = "finalized"
           /\ calls[k].outcome = "value" /\ Moves(k)
           /\ \E j \in Slots \ {k} : calls[j].kind = "_create") =>
             /\ calls'[k].pc = "returned"
             /\ collection' = Append(collection, calls'[k].item)
             /\ Values(heap', collection') = Append(Values(heap, collection), heap[calls[k].item])
             /\ current' = calls'[k].item
             /\ \A j \in Slots \ {k} : Created(j) =>
                  \E p \in 1..Len(collection) : collection'[p] = calls'[j].item]_vars
  /\ [](\A j, k \in Slots :
          (j # k /\ Created(j) /\ Created(k)) =>
             /\ \E p, q \in 1..Len(collection) :
                  p # q /\ collection[p] = calls[j].item /\ collection[q] = calls[k].item
             /\ current = collection[Len(collection)]
             /\ \E i \in Slots : Created(i) /\ current = calls[i].item)

\* Two creates that overlapped have completed on a store that held an item,
\* the later call first.
C38_Witness ==
  /\ Len(collection) > 2
  /\ \E j, k \in Slots :
       /\ j < k /\ Created(j) /\ Created(k)
       /\ heap[calls[j].item] # heap[calls[k].item]
       /\ current = calls[j].item
       /\ collection[Len(collection)] = calls[j].item
       /\ collection[Len(collection) - 1] = calls[k].item

\* ------------------------------------------------------------- termination of apiCall (SpecLive)
\* C39: with endpoints that all answer: every apiCall that has started
\* completes in the end; and whenever some call has started and none is
\* between its start and its finally block, isLoading is false.
C39_CallsComplete ==
  /\ \A k \in Slots : (calls[k].pc # "idle") ~> (calls[k].pc = "returned")
  /\ []((/\ \E k \in Slots : calls[k].pc # "idle"
         /\ \A k \in Slots : calls[k].pc \notin {"inflight", "settled"})
          => isLoading = FALSE)

\* Calls that overlapped are both over, one with a result and one with the
\* error of its endpoint.
C39_Witness ==
  /\ isLoading = FALSE
  /\ \A k \in Slots : calls[k].pc = "returned" /\ calls[k].invoked = 1
  /\ \E k \in Slots : calls[k].outcome = "error" /\ calls[k].rejected # NoErr
  /\ \E k \in Slots : calls[k].outcome = "value"

====
